---- MODULE Spec2Model ----
(***************************************************************************)
(* CSAR (Combinatorial Successive Accept-Reject) over matroid structures.  *)
(* The structures (UniformMatroid, CircuitMatroid), the multigraph with    *)
(* its Kruskal maximum spanning tree over a union-find, the reachability   *)
(* graph, fast_maxgap, naive_maxgap and the csar loop.                     *)
(*                                                                         *)
(* Vec<T> is a sequence; the element at Rust index i is At(v, i).          *)
(* f64 weights are exact integers; f64::INFINITY and f64::NEG_INFINITY are *)
(* the two sentinels INFINITY and NEG_INFINITY with saturating arithmetic. *)
(***************************************************************************)
EXTENDS Integers, Sequences, FiniteSets, TLC

VARIABLES kind, arm_num, arms, rank, graph,   \* the structure's fields
          status,                              \* "ok", or "panic" once a call aborted
          initial,                             \* the structure as constructed
          last,                                \* the last call and what it returned
          means, samplers, accepted_arms, round, \* csar: the oracle and the locals
          union_find,                          \* a UnionFind driven on its own
          driver                               \* main: its position and its locals

vars == <<kind, arm_num, arms, rank, graph, status, initial, last,
          means, samplers, accepted_arms, round, union_find, driver>>

(***************************************************************************)
(* Bounds of the model.                                                    *)
(***************************************************************************)
MaxVnum == 4
MaxEdges == 4
MaxUniform == 4
MaxSample == 2

(***************************************************************************)
(* Vec helpers.                                                            *)
(***************************************************************************)
At(v, i) == v[i + 1]

Range(v) == {v[k] : k \in 1..Len(v)}

\* Vec::pop in place of swap_remove: the last element goes, whatever i.
swap_remove_pops(v, i) == [k \in 1..(Len(v) - 1) |-> v[k]]

\* Vec::swap_remove(i): the last element takes position i.
swap_remove(v, i) ==
  LET n == Len(v)
  IN  [k \in 1..(n - 1) |-> IF k = i + 1 THEN v[n] ELSE v[k]]

\* iter().position(|&r| r == i): the first position holding i, -1 for None.
position(v, i) ==
  IF \E k \in 1..Len(v) : v[k] = i
  THEN (CHOOSE k \in 1..Len(v) : v[k] = i /\ \A j \in 1..(k - 1) : v[j] # i) - 1
  ELSE -1

contains(v, i) == \E k \in 1..Len(v) : v[k] = i

\* usize::MAX, standing as the largest integer TLC represents.
USIZE_MAX == 2147483647

Max2(a, b) == IF a >= b THEN a ELSE b
Min2(a, b) == IF a <= b THEN a ELSE b

RECURSIVE SumOver(_, _)
\* iter().map(|&i| weights[i]).sum()
SumOver(ids, w) ==
  IF ids = <<>> THEN 0 ELSE w[Head(ids) + 1] + SumOver(Tail(ids), w)

(***************************************************************************)
(* f64 with the two infinities.                                            *)
(***************************************************************************)
INFINITY == 1000000
NEG_INFINITY == 0 - INFINITY

\* a + b on f64 (no NaN arises: the two infinities are never added).
FAdd(a, b) ==
  IF a = INFINITY \/ b = INFINITY THEN INFINITY
  ELSE IF a = NEG_INFINITY \/ b = NEG_INFINITY THEN NEG_INFINITY
  ELSE a + b

\* a - b on f64.
FSub(a, b) ==
  IF a = INFINITY \/ b = NEG_INFINITY THEN INFINITY
  ELSE IF a = NEG_INFINITY \/ b = INFINITY THEN NEG_INFINITY
  ELSE a - b

(***************************************************************************)
(* util/union_find.rs                                                      *)
(***************************************************************************)
UnionFind_new(n) == [par |-> [v \in 0..(n - 1) |-> v], size |-> [v \in 0..(n - 1) |-> 1]]

RECURSIVE find_root(_, _)
\* Returns the root and the forest after path compression.
find_root(uf, v) ==
  IF uf.par[v] # v
  THEN LET r == find_root(uf, uf.par[v])
       IN  [uf |-> [r.uf EXCEPT !.par[v] = r.root], root |-> r.root]
  ELSE [uf |-> uf, root |-> v]

same(uf, u, v) ==
  LET a == find_root(uf, u)
      b == find_root(a.uf, v)
  IN  [uf |-> b.uf, res |-> (a.root = b.root)]

unite(uf, u0, v0) ==
  LET pu == uf.par[u0]
      pv == uf.par[v0]
      u == IF uf.size[pu] < uf.size[pv] THEN pv ELSE pu
      v == IF uf.size[pu] < uf.size[pv] THEN pu ELSE pv
  IN  IF pu # pv
      THEN [par |-> [uf.par EXCEPT ![v] = u],
            size |-> [uf.size EXCEPT ![u] = uf.size[u] + uf.size[v]]]
      ELSE uf

(***************************************************************************)
(* util/graph.rs                                                           *)
(***************************************************************************)
Graph_new(vnum) == [edges |-> <<>>, vnum |-> vnum]

add_edge(g, u, v) ==
  [edges |-> Append(g.edges, <<u, v>>), vnum |-> Max2(g.vnum, Max2(u, v) + 1)]

RECURSIVE MaxEndpoint(_)
MaxEndpoint(es) ==
  IF es = <<>> THEN 0
  ELSE Max2(Max2(Head(es)[1], Head(es)[2]), MaxEndpoint(Tail(es)))

from_edges(es) == [edges |-> es, vnum |-> MaxEndpoint(es) + 1]

\* One endpoint through the loop body of contract_by_edge.
ContractEndpoint(x, s, t) ==
  LET y == IF x = t THEN s ELSE x
  IN  IF y >= t /\ y > 0 THEN y - 1 ELSE y

contract_by_edge(g, i) ==
  LET e == At(g.edges, i)
      s == Min2(e[1], e[2])
      t == Max2(e[1], e[2])
      moved == [k \in 1..Len(g.edges) |->
                  <<ContractEndpoint(g.edges[k][1], s, t),
                    ContractEndpoint(g.edges[k][2], s, t)>>]
  IN  [edges |-> swap_remove(moved, i), vnum |-> g.vnum - 1]

\* delete_edge giving up a vertex with the edge.
delete_edge_shrinking(g, i) == [edges |-> swap_remove(g.edges, i), vnum |-> g.vnum - 1]

\* delete_edge closing the gap by shifting the later edges down.
delete_edge_shifting(g, i) ==
  [edges |-> [k \in 1..(Len(g.edges) - 1) |-> IF k <= i THEN g.edges[k] ELSE g.edges[k + 1]],
   vnum |-> g.vnum]

delete_edge(g, i) == [edges |-> swap_remove(g.edges, i), vnum |-> g.vnum]

RECURSIVE InsertByWeight(_, _, _)
\* InsertByWeight without the `.reverse()`: ascending weights.
InsertByWeight_ascending(sorted, x, w) ==
  IF sorted = <<>> THEN <<x>>
  ELSE LET l == sorted[Len(sorted)]
       IN  IF At(w, x) < At(w, l)
           THEN Append(InsertByWeight(SubSeq(sorted, 1, Len(sorted) - 1), x, w), l)
           ELSE Append(sorted, x)

\* One step of the insertion sort behind sort_unstable_by for short slices:
\* x moves left past every element of strictly smaller weight.
InsertByWeight(sorted, x, w) ==
  IF sorted = <<>> THEN <<x>>
  ELSE LET l == sorted[Len(sorted)]
       IN  IF At(w, x) > At(w, l)
           THEN Append(InsertByWeight(SubSeq(sorted, 1, Len(sorted) - 1), x, w), l)
           ELSE Append(sorted, x)

RECURSIVE SortDesc(_, _, _)
\* sort_unstable_by(|i, j| weights[i].partial_cmp(&weights[j]).unwrap().reverse())
SortDesc(done, todo, w) ==
  IF todo = <<>> THEN done
  ELSE SortDesc(InsertByWeight(done, Head(todo), w), Tail(todo), w)

Some(v) == [tag |-> "Some", val |-> v]
None == [tag |-> "None", val |-> <<>>]
Panic == [tag |-> "Panic", val |-> <<>>]

RECURSIVE Kruskal(_, _, _, _)
\* The greedy loop of maximum_spanning_tree.
Kruskal(g, indices, uf, mst) ==
  IF indices = <<>> THEN mst
  ELSE LET i == Head(indices)
           u == At(g.edges, i)[1]
           v == At(g.edges, i)[2]
           s == same(uf, u, v)
       IN  IF ~s.res
           THEN Kruskal(g, Tail(indices), unite(s.uf, u, v), Append(mst, i))
           ELSE Kruskal(g, Tail(indices), s.uf, mst)

EndpointsInRange(g) ==
  \A k \in 1..Len(g.edges) : g.edges[k][1] < g.vnum /\ g.edges[k][2] < g.vnum

maximum_spanning_tree(g, w) ==
  IF Len(g.edges) # Len(w) THEN Panic
  ELSE IF g.vnum = 0 THEN None
  \* UnionFind::new(usize::MAX) cannot allocate; an endpoint >= vnum indexes
  \* the union-find out of range.
  ELSE IF g.vnum = USIZE_MAX \/ ~EndpointsInRange(g) THEN Panic
  ELSE Some(Kruskal(g,
                    SortDesc(<<>>, [k \in 1..Len(g.edges) |-> k - 1], w),
                    UnionFind_new(g.vnum),
                    <<>>))

(***************************************************************************)
(* structure/uniform_matroid.rs and structure/circuit_matroid.rs           *)
(* A structure is a record [kind, arm_num, arms, rank, graph]; kind is     *)
(* "uniform" or "circuit", rank is unused by the circuit matroid and graph *)
(* by the uniform matroid.                                                 *)
(***************************************************************************)
UniformMatroid_new(n, r) ==
  [kind |-> "uniform", arm_num |-> n, arms |-> [k \in 1..n |-> k - 1],
   rank |-> r, graph |-> Graph_new(0)]

CircuitMatroid_new(g) ==
  [kind |-> "circuit", arm_num |-> Len(g.edges),
   arms |-> [k \in 1..Len(g.edges) |-> k - 1], rank |-> 0, graph |-> g]

get_arms(s) == s.arms

\* usize `x -= 1`: with overflow checks the subtraction from 0 panics,
\* without them it wraps.
DecUsize(x, checks) ==
  IF x > 0 THEN Some(x - 1) ELSE IF checks THEN Panic ELSE Some(USIZE_MAX)

\* contract_arm leaving the rank of a uniform matroid as it was.
contract_arm_keeps_rank(s, i, checks) ==
  LET pos == position(s.arms, i)
  IN  IF pos < 0 THEN Panic
      ELSE IF s.kind = "uniform"
      THEN Some([s EXCEPT !.arms = swap_remove(s.arms, pos)])
      ELSE LET n == DecUsize(s.graph.vnum, checks)
           IN  IF n.tag = "Panic" THEN Panic
               ELSE Some([s EXCEPT !.arms = swap_remove(s.arms, pos),
                                   !.graph = [contract_by_edge(s.graph, pos)
                                                EXCEPT !.vnum = n.val]])

\* contract_arm: Some(structure) or Panic.
contract_arm(s, i, checks) ==
  LET pos == position(s.arms, i)
  IN  IF pos < 0 THEN Panic
      ELSE IF s.kind = "uniform"
      THEN LET r == DecUsize(s.rank, checks)
           IN  IF r.tag = "Panic" THEN Panic
               ELSE Some([s EXCEPT !.arms = swap_remove(s.arms, pos), !.rank = r.val])
      ELSE LET n == DecUsize(s.graph.vnum, checks)
           IN  IF n.tag = "Panic" THEN Panic
               ELSE Some([s EXCEPT !.arms = swap_remove(s.arms, pos),
                                   !.graph = [contract_by_edge(s.graph, pos)
                                                EXCEPT !.vnum = n.val]])

\* delete_arm returning without effect when the arm is not found.
delete_arm_lenient(s, i) ==
  LET pos == position(s.arms, i)
  IN  IF pos < 0 THEN Some(s)
      ELSE IF s.kind = "uniform"
      THEN Some([s EXCEPT !.arms = swap_remove(s.arms, pos)])
      ELSE Some([s EXCEPT !.arms = swap_remove(s.arms, pos),
                          !.graph = delete_edge(s.graph, pos)])

\* delete_arm: Some(structure) or Panic.
delete_arm(s, i) ==
  LET pos == position(s.arms, i)
  IN  IF pos < 0 THEN Panic
      ELSE IF s.kind = "uniform"
      THEN Some([s EXCEPT !.arms = swap_remove(s.arms, pos)])
      ELSE Some([s EXCEPT !.arms = swap_remove(s.arms, pos),
                          !.graph = delete_edge(s.graph, pos)])

\* UniformMatroid_optimal with `<=` in the feasibility test.
UniformMatroid_optimal_le(s, w) ==
  IF Len(s.arms) <= s.rank THEN None
  ELSE IF \E k \in 1..Len(s.arms) : s.arms[k] >= Len(w) THEN Panic
  ELSE Some(SubSeq(SortDesc(<<>>, s.arms, w), 1, s.rank))

UniformMatroid_optimal(s, w) ==
  IF Len(s.arms) < s.rank THEN None
  ELSE IF \E k \in 1..Len(s.arms) : s.arms[k] >= Len(w) THEN Panic
  ELSE Some(SubSeq(SortDesc(<<>>, s.arms, w), 1, s.rank))

\* CircuitMatroid_optimal reading the weights by position instead of arm id.
CircuitMatroid_optimal_positional(s, w) ==
  IF Len(s.arms) > Len(w) THEN Panic
  ELSE LET mapped_weights == [k \in 1..Len(s.arms) |-> At(w, k - 1)]
           mst == maximum_spanning_tree(s.graph, mapped_weights)
       IN  IF mst.tag = "Some"
           THEN Some([k \in 1..Len(mst.val) |-> At(s.arms, mst.val[k])])
           ELSE mst

CircuitMatroid_optimal(s, w) ==
  IF \E k \in 1..Len(s.arms) : s.arms[k] >= Len(w) THEN Panic
  ELSE LET mapped_weights == [k \in 1..Len(s.arms) |-> At(w, s.arms[k])]
           mst == maximum_spanning_tree(s.graph, mapped_weights)
       IN  IF mst.tag = "Some"
           THEN Some([k \in 1..Len(mst.val) |-> At(s.arms, mst.val[k])])
           ELSE mst

optimal(s, w) ==
  IF s.kind = "uniform" THEN UniformMatroid_optimal(s, w) ELSE CircuitMatroid_optimal(s, w)

(***************************************************************************)
(* CircuitMatroid::reachability_graph                                      *)
(***************************************************************************)
RECURSIVE Pow2(_)
Pow2(k) == IF k = 0 THEN 1 ELSE 2 * Pow2(k - 1)

RECURSIVE trailing_zeros(_)
trailing_zeros(d) == IF d % 2 = 1 THEN 0 ELSE 1 + trailing_zeros(d \div 2)

\* arm-index to edge-index (0 for an arm that does not survive).
arm_to_edge(s) ==
  [a \in 0..(s.arm_num - 1) |->
     IF contains(s.arms, a) THEN position(s.arms, a) ELSE 0]

RECURSIVE BuildAdj(_, _, _)
\* The adjacency list of the tree: edge indices pushed in the order of opt_arms.
BuildAdj(s, opt_arms, adj) ==
  IF opt_arms = <<>> THEN adj
  ELSE LET edge_i == arm_to_edge(s)[Head(opt_arms)]
           u == At(s.graph.edges, edge_i)[1]
           v == At(s.graph.edges, edge_i)[2]
           a1 == [adj EXCEPT ![u] = Append(@, edge_i)]
           a2 == [a1 EXCEPT ![v] = Append(@, edge_i)]
       IN  BuildAdj(s, Tail(opt_arms), a2)

RECURSIVE Doubling(_, _, _)
\* Doubling that joins only the lower half of the jump to the auxiliary
\* vertex.
Doubling_half(b, u, k) ==
  IF Pow2(k + 1) <= b.depth[u]
  THEN LET v == At(b.par_vertex[u], k)
           uv == At(b.par_edge[u], k)
           w == At(b.par_vertex[v], k)
           uw == b.result_graph.vnum
       IN  Doubling([b EXCEPT
                       !.result_graph = add_edge(@, uv, uw),
                       !.par_vertex[u] = Append(@, w),
                       !.par_edge[u] = Append(@, uw)],
                    u, k + 1)
  ELSE b

\* The `while 1 << (k + 1) <= depth[u]` loop run when u is popped.
Doubling(b, u, k) ==
  IF Pow2(k + 1) <= b.depth[u]
  THEN LET v == At(b.par_vertex[u], k)
           uv == At(b.par_edge[u], k)
           w == At(b.par_vertex[v], k)
           vw == At(b.par_edge[v], k)
           uw == b.result_graph.vnum
       IN  Doubling([b EXCEPT
                       !.result_graph = add_edge(add_edge(@, uv, uw), vw, uw),
                       !.par_vertex[u] = Append(@, w),
                       !.par_edge[u] = Append(@, uw)],
                    u, k + 1)
  ELSE b

RECURSIVE ScanAdj(_, _, _, _)
\* The `for &i in &adj[u]` loop of the BFS.
ScanAdj(s, b, u, is) ==
  IF is = <<>> THEN b
  ELSE LET i == Head(is)
           p == At(s.graph.edges, i)[1]
           q == At(s.graph.edges, i)[2]
           v == IF u = p THEN q ELSE p
       IN  IF ~b.visited[v]
           THEN ScanAdj(s,
                        [b EXCEPT !.depth[v] = b.depth[u] + 1,
                                  !.par_vertex[v] = Append(@, u),
                                  !.par_edge[v] = Append(@, At(s.arms, i)),
                                  !.queue = Append(@, v)],
                        u, Tail(is))
           ELSE ScanAdj(s, b, u, Tail(is))

RECURSIVE Bfs(_, _, _)
\* `while let Some(u) = queue.pop_front()`.
Bfs(s, adj, b) ==
  IF b.queue = <<>> THEN b
  ELSE LET u == Head(b.queue)
           b1 == [b EXCEPT !.queue = Tail(@), !.visited[u] = TRUE]
           b2 == Doubling(b1, u, 0)
       IN  Bfs(s, adj, ScanAdj(s, b2, u, adj[u]))

RECURSIVE Equalize(_, _, _)
\* `while depth[u] != depth[v]`; c = [u, v, g] with g the result graph.
Equalize(b, arms_i, c) ==
  IF b.depth[c.u] = b.depth[c.v] THEN c
  ELSE LET u == IF b.depth[c.u] < b.depth[c.v] THEN c.v ELSE c.u
           v == IF b.depth[c.u] < b.depth[c.v] THEN c.u ELSE c.v
           k == trailing_zeros(b.depth[u] - b.depth[v])
       IN  Equalize(b, arms_i,
                    [u |-> At(b.par_vertex[u], k), v |-> v,
                     g |-> add_edge(c.g, At(b.par_edge[u], k), arms_i)])

RECURSIVE Climb(_, _, _, _)
\* `for k in (0..kmax).rev()`, called with k = kmax and counting down.
Climb(b, arms_i, c, k) ==
  IF k = 0 THEN c
  ELSE LET kk == k - 1
       IN  IF Len(b.par_vertex[c.u]) <= kk THEN Climb(b, arms_i, c, kk)
           ELSE LET nu == At(b.par_vertex[c.u], kk)
                    nv == At(b.par_vertex[c.v], kk)
                IN  IF nu # nv
                    THEN Climb(b, arms_i,
                               [u |-> nu, v |-> nv,
                                g |-> add_edge(add_edge(c.g, At(b.par_edge[c.u], kk), arms_i),
                                               At(b.par_edge[c.v], kk), arms_i)],
                               kk)
                    ELSE Climb(b, arms_i, c, kk)

\* The body of the loop over the edges for one edge i that is not in the
\* tree: Some(result graph) or Panic.
SpanEdge(s, b, g, i) ==
  LET arms_i == At(s.arms, i)
      e == At(s.graph.edges, i)
      c0 == Equalize(b, arms_i, [u |-> e[1], v |-> e[2], g |-> g])
  IN  IF c0.u = c0.v THEN Some(c0.g)
      ELSE IF Len(b.par_edge[c0.u]) # Len(b.par_edge[c0.v]) THEN Panic
      ELSE LET c1 == Climb(b, arms_i, c0, Len(b.par_edge[c0.u]))
           IN  IF c1.u = c1.v THEN Panic
               ELSE IF b.par_edge[c1.u] = <<>> \/ b.par_edge[c1.v] = <<>> THEN Panic
               ELSE IF At(b.par_vertex[c1.u], 0) # At(b.par_vertex[c1.v], 0) THEN Panic
               ELSE Some(add_edge(add_edge(c1.g, At(b.par_edge[c1.u], 0), arms_i),
                                  At(b.par_edge[c1.v], 0), arms_i))

RECURSIVE SpanEdges(_, _, _, _, _)
\* `for (i, &(mut u, mut v)) in edges.iter().enumerate()`.
SpanEdges(s, b, in_tree, g, i) ==
  IF i >= Len(s.graph.edges) THEN Some(g)
  ELSE IF i \in in_tree THEN SpanEdges(s, b, in_tree, g, i + 1)
  ELSE LET r == SpanEdge(s, b, g, i)
       IN  IF r.tag = "Panic" THEN Panic
           ELSE SpanEdges(s, b, in_tree, r.val, i + 1)

\* Some(graph) or Panic. opt_arms is required to induce a forest.
CircuitMatroid_reachability_graph(s, opt_arms) ==
  LET vnum == s.graph.vnum
      V == 0..(vnum - 1)
      adj == BuildAdj(s, opt_arms, [v \in V |-> <<>>])
      b0 == [queue |-> <<0>>,
             visited |-> [v \in V |-> FALSE],
             depth |-> [v \in V |-> 0],
             par_vertex |-> [v \in V |-> <<>>],
             par_edge |-> [v \in V |-> <<>>],
             result_graph |-> Graph_new(s.arm_num)]
      b == Bfs(s, adj, b0)
      in_tree == {arm_to_edge(s)[opt_arms[k]] : k \in 1..Len(opt_arms)}
  IN  \* depth[0] = 0 indexes an empty vector when the graph has no vertex.
      IF vnum = 0 \/ vnum = USIZE_MAX THEN Panic
      ELSE SpanEdges(s, b, in_tree, b.result_graph, 0)

(***************************************************************************)
(* UniformMatroid::reachability_graph                                      *)
(***************************************************************************)
RECURSIVE HubEdges(_, _, _, _)
\* HubEdges with every edge leaving the hub.
HubEdges_reversed(indices, basis, n, g) ==
  IF indices = <<>> THEN g
  ELSE HubEdges(Tail(indices), basis, n, add_edge(g, n, Head(indices)))

HubEdges(indices, basis, n, g) ==
  IF indices = <<>> THEN g
  ELSE LET v == Head(indices)
       IN  HubEdges(Tail(indices), basis, n,
                    IF contains(basis, v) THEN add_edge(g, v, n) ELSE add_edge(g, n, v))

UniformMatroid_reachability_graph(s, basis) ==
  Some(HubEdges(s.arms, basis, s.arm_num, Graph_new(s.arm_num + 1)))

reachability_graph(s, basis) ==
  IF s.kind = "uniform" THEN UniformMatroid_reachability_graph(s, basis)
  ELSE CircuitMatroid_reachability_graph(s, basis)

(***************************************************************************)
(* CombinatorialStructure::fast_maxgap (structure.rs)                      *)
(***************************************************************************)
RECURSIVE AdjLists(_, _, _)
\* adj_from_basis (f) and adj_to_basis (t) from the edge list.
AdjLists(es, f, t) ==
  IF es = <<>> THEN [from |-> f, to |-> t]
  ELSE LET u == Head(es)[1]
           v == Head(es)[2]
       IN  AdjLists(Tail(es), [f EXCEPT ![u] = Append(@, v)], [t EXCEPT ![v] = Append(@, u)])

RECURSIVE Seed(_, _, _, _, _, _)
\* `for v in 0..rvnum`: a vertex of degree 0 enters the queue, and takes its
\* weight when it is a primary vertex.
Seed(v, rvnum, n, w, deg, k) ==
  IF v >= rvnum THEN k
  ELSE IF deg[v] = 0
  THEN Seed(v + 1, rvnum, n, w, deg,
            [k EXCEPT !.queue = Append(@, v),
                      !.val[v] = IF v < n THEN At(w, v) ELSE @])
  ELSE Seed(v + 1, rvnum, n, w, deg, k)

RECURSIVE Relax(_, _, _, _)
\* `for &u in &adj[v]` of one sweep; ismax selects f64::max or f64::min.
Relax(k, v, us, ismax) ==
  IF us = <<>> THEN k
  ELSE LET u == Head(us)
           nv == IF ismax THEN Max2(k.val[u], k.val[v]) ELSE Min2(k.val[u], k.val[v])
           nd == k.deg[u] - 1
       IN  Relax([k EXCEPT !.val[u] = nv, !.deg[u] = nd,
                           !.queue = IF nd = 0 THEN Append(@, u) ELSE @],
                 v, Tail(us), ismax)

RECURSIVE Sweep(_, _, _)
\* `while let Some(v) = queue.pop_front()`.
Sweep(k, adj, ismax) ==
  IF k.queue = <<>> THEN k
  ELSE LET v == Head(k.queue)
       IN  Sweep(Relax([k EXCEPT !.queue = Tail(@)], v, adj[v], ismax), adj, ismax)

\* The sweep towards the basis: max_weights and the degrees it ends with.
ToBasis(rg, n, w) ==
  LET R == 0..(rg.vnum - 1)
      a == AdjLists(rg.edges, [v \in R |-> <<>>], [v \in R |-> <<>>])
      deg == [v \in R |-> Len(a.from[v])]
      k0 == Seed(0, rg.vnum, n, w, deg,
                 [queue |-> <<>>, deg |-> deg, val |-> [v \in R |-> NEG_INFINITY]])
  IN  Sweep(k0, a.to, TRUE)

\* The sweep from the basis: min_weights and the degrees it ends with.
FromBasis(rg, n, w) ==
  LET R == 0..(rg.vnum - 1)
      a == AdjLists(rg.edges, [v \in R |-> <<>>], [v \in R |-> <<>>])
      deg == [v \in R |-> Len(a.to[v])]
      k0 == Seed(0, rg.vnum, n, w, deg,
                 [queue |-> <<>>, deg |-> deg, val |-> [v \in R |-> INFINITY]])
  IN  Sweep(k0, a.from, FALSE)

BfsDone(k) == \A v \in DOMAIN k.deg : k.deg[v] = 0

\* gaps[i] for every arm id i < arm_num.
Gaps(s, opt_basis, mx, mn, w) ==
  [i \in 0..(s.arm_num - 1) |->
     IF contains(opt_basis, i) THEN FSub(At(w, i), mx.val[i])
     ELSE FSub(mn.val[i], At(w, i))]

RECURSIVE ArgMax(_, _, _, _)
\* ArgMax with the loop body dropped: the arm it starts with.
ArgMax_initial(ids, gaps, maxgap, maxgap_arm) == maxgap_arm

\* `for i in self.get_arms() { if gaps[i] > maxgap { ... } }`
ArgMax(ids, gaps, maxgap, maxgap_arm) ==
  IF ids = <<>> THEN maxgap_arm
  ELSE IF gaps[Head(ids)] > maxgap
  THEN ArgMax(Tail(ids), gaps, gaps[Head(ids)], Head(ids))
  ELSE ArgMax(Tail(ids), gaps, maxgap, maxgap_arm)

\* Some(arm id) or Panic.
fast_maxgap(s, w) ==
  LET opt == optimal(s, w)
      rg == reachability_graph(s, opt.val)
      mx == ToBasis(rg.val, s.arm_num, w)
      mn == FromBasis(rg.val, s.arm_num, w)
  IN  IF opt.tag # "Some" \/ Len(w) < s.arm_num THEN Panic
      ELSE IF rg.tag # "Some" THEN Panic
      \* assert!(..., "BFS error (to basis)") and "BFS error (from basis)"
      ELSE IF ~BfsDone(mx) THEN Panic
      ELSE IF ~BfsDone(mn) THEN Panic
      ELSE Some(ArgMax(s.arms, Gaps(s, opt.val, mx, mn, w), NEG_INFINITY, 0))

(***************************************************************************)
(* naive_maxgap (algorithm.rs)                                             *)
(***************************************************************************)
\* The gap of arm i as the loop body computes it: Some(gap) or Panic.
NaiveGap(s, w, opt_arms, i, checks) ==
  LET in_opt == contains(opt_arms, i)
      new_structure == IF in_opt THEN delete_arm(s, i) ELSE contract_arm(s, i, checks)
      sub == optimal(new_structure.val, w)
      subopt_weight ==
        FAdd(IF in_opt THEN 0 ELSE At(w, i),
             IF sub.tag = "Some" THEN SumOver(sub.val, w) ELSE NEG_INFINITY)
  IN  IF new_structure.tag = "Panic" THEN Panic
      ELSE IF sub.tag = "Panic" THEN Panic
      ELSE Some(FSub(SumOver(opt_arms, w), subopt_weight))

RECURSIVE NaiveLoop(_, _, _, _, _, _, _)
\* `for &i in &arms`: Some(maxgap_arm) with -1 for None, or Panic.
NaiveLoop(s, w, opt_arms, ids, maxgap, maxgap_arm, checks) ==
  IF ids = <<>> THEN Some(maxgap_arm)
  ELSE LET g == NaiveGap(s, w, opt_arms, Head(ids), checks)
       IN  IF g.tag = "Panic" THEN Panic
           ELSE IF g.val > maxgap
           THEN NaiveLoop(s, w, opt_arms, Tail(ids), g.val, Head(ids), checks)
           ELSE NaiveLoop(s, w, opt_arms, Tail(ids), maxgap, maxgap_arm, checks)

\* Some(arm id) or Panic.
naive_maxgap(s, w, checks) ==
  LET opt == optimal(s, w)
      r == NaiveLoop(s, w, opt.val, s.arms, NEG_INFINITY, -1, checks)
  IN  IF Len(s.arms) = 0 \/ Len(s.arms) # Len(w) THEN Panic
      ELSE IF opt.tag # "Some" THEN Panic
      ELSE IF r.tag = "Panic" THEN Panic
      ELSE IF r.val >= 0 THEN r ELSE Some(Head(s.arms))

(***************************************************************************)
(* The structures the model starts from: UniformMatroid::new(n, rank) with *)
(* rank <= n, and CircuitMatroid::new over a connected simple graph whose  *)
(* edges (u < v) are listed in lexicographic order.                        *)
(***************************************************************************)
Pairs(n) == {p \in (0..(n - 1)) \X (0..(n - 1)) : p[1] < p[2]}

PairLess(p, q) == p[1] < q[1] \/ (p[1] = q[1] /\ p[2] < q[2])

RECURSIVE SortedSeq(_)
SortedSeq(S) ==
  IF S = {} THEN <<>>
  ELSE LET m == CHOOSE p \in S : \A q \in S \ {p} : PairLess(p, q)
       IN  <<m>> \o SortedSeq(S \ {m})

RECURSIVE Component(_, _)
\* The vertices joined to the set C by the edges es.
Component(es, C) ==
  LET D == C \cup {es[k][2] : k \in {j \in 1..Len(es) : es[j][1] \in C}}
             \cup {es[k][1] : k \in {j \in 1..Len(es) : es[j][2] \in C}}
  IN  IF D = C THEN C ELSE Component(es, D)

Connected(g) == g.vnum >= 1 /\ EndpointsInRange(g) /\ Component(g.edges, {0}) = 0..(g.vnum - 1)

InitGraphs ==
  {g \in {from_edges(SortedSeq(E)) :
            E \in {F \in SUBSET Pairs(MaxVnum) : F # {} /\ Cardinality(F) <= MaxEdges}} :
     Connected(g)}

InitStructures ==
  {UniformMatroid_new(n, r) : <<n, r>> \in {p \in (1..MaxUniform) \X (0..MaxUniform) : p[2] <= p[1]}}
    \cup {CircuitMatroid_new(g) : g \in InitGraphs}

\* Two graphs of 9 vertices and 10 edges, a cycle of length 9 with a chord:
\* numbered along the cycle, and numbered as two branches of length 4 from
\* vertex 0.  Their spanning trees reach depth 8, so that the doubling table
\* holds jumps of 2, 4 and 8 edges and two branches are climbed together.
DeepGraphs ==
  {from_edges(<<<<0, 1>>, <<1, 2>>, <<2, 3>>, <<3, 4>>, <<4, 5>>, <<5, 6>>, <<6, 7>>,
                <<7, 8>>, <<0, 8>>, <<2, 6>>>>),
   from_edges(<<<<0, 1>>, <<1, 2>>, <<2, 3>>, <<3, 4>>, <<0, 5>>, <<5, 6>>, <<6, 7>>,
                <<7, 8>>, <<4, 8>>, <<2, 6>>>>)}

DeepStructures == {CircuitMatroid_new(g) : g \in DeepGraphs}

\* The removals explored from a structure of DeepStructures.
MaxDeepRemovals == 1

Self == [kind |-> kind, arm_num |-> arm_num, arms |-> arms, rank |-> rank, graph |-> graph]

\* The weights vectors of a query: an entry per original arm id, the removed
\* arms 0.  Up to MaxEdges (MaxUniform) surviving arms, every weighting of
\* them by 1..(number of survivors); beyond, the weightings with at most two
\* arms of weight 1 among arms of weight 2, and the cyclic shifts of
\* 1..arm_num.
WeightVectors(s) ==
  LET alive == Range(s.arms)
      k == Len(s.arms)
  IN  IF k <= Max2(MaxEdges, MaxUniform)
      THEN {[i \in 1..s.arm_num |-> IF (i - 1) \in alive THEN f[i - 1] ELSE 0] :
              f \in [alive -> 1..k]}
      ELSE {[i \in 1..s.arm_num |->
               IF (i - 1) \notin alive THEN 0 ELSE IF (i - 1) \in L THEN 1 ELSE 2] :
              L \in {M \in SUBSET alive : Cardinality(M) <= 2}}
           \cup {[i \in 1..s.arm_num |->
                    IF (i - 1) \in alive THEN 1 + ((i - 1 + j) % s.arm_num) ELSE 0] :
                   j \in 0..(s.arm_num - 1)}

Distinct(s, w) ==
  \A i, j \in Range(s.arms) : i # j => At(w, i) # At(w, j)

NoCall == [op |-> "new"]

\* optimal, reachability_graph, fast_maxgap and naive_maxgap take &self: they
\* leave the structure as it was, so whatever follows such a call is reached
\* from the state before it as well.  The calls are explored from the states
\* a constructor, contract_arm or delete_arm left.
Mutated == last.op \in {"new", "contract_arm", "delete_arm"}

InitWith(S) ==
  /\ \E s \in S :
       /\ kind = s.kind /\ arm_num = s.arm_num /\ arms = s.arms
       /\ rank = s.rank /\ graph = s.graph
       /\ initial = s
  /\ status = "ok"
  /\ last = NoCall
  /\ accepted_arms = <<>>
  /\ round = 0
  /\ union_find = UnionFind_new(0)
  /\ driver = [pc |-> "none"]

Init ==
  /\ InitWith(InitStructures \cup DeepStructures)
  /\ means = <<>>
  /\ samplers = <<>>

\* contract_arm and delete_arm are explored without limit up to MaxEdges
\* (MaxUniform) arms, and MaxDeepRemovals times beyond.
Removable ==
  Len(arms) > Max2(MaxEdges, MaxUniform) => arm_num - Len(arms) < MaxDeepRemovals

SetStructure(s) ==
  /\ kind' = s.kind /\ arm_num' = s.arm_num /\ arms' = s.arms
  /\ rank' = s.rank /\ graph' = s.graph

csar_vars == <<means, samplers, accepted_arms, round>>
structure_vars == <<kind, arm_num, arms, rank, graph>>

\* structure.contract_arm(i), i a surviving arm id or not.
ContractArm(i) ==
  /\ status = "ok"
  /\ Mutated
  /\ Removable
  /\ \E checks \in BOOLEAN : \E r \in {contract_arm(Self, i, checks)} :
       IF r.tag = "Panic"
       THEN /\ status' = "panic"
            /\ UNCHANGED structure_vars
       ELSE /\ status' = "ok"
            /\ SetStructure(r.val)
  /\ last' = [op |-> "contract_arm", arm |-> i]
  /\ UNCHANGED <<initial, union_find, driver, csar_vars>>

\* structure.delete_arm(i), i a surviving arm id or not.
DeleteArm(i) ==
  /\ status = "ok"
  /\ Mutated
  /\ Removable
  /\ \E r \in {delete_arm(Self, i)} :
       IF r.tag = "Panic"
       THEN /\ status' = "panic"
            /\ UNCHANGED structure_vars
       ELSE /\ status' = "ok"
            /\ SetStructure(r.val)
  /\ last' = [op |-> "delete_arm", arm |-> i]
  /\ UNCHANGED <<initial, union_find, driver, csar_vars>>

\* structure.optimal(&weights); for the circuit matroid the record keeps what
\* maximum_spanning_tree returned for the permuted weights.
Optimal(w) ==
  /\ status = "ok"
  /\ Mutated
  /\ last' = [op |-> "optimal", w |-> w, result |-> optimal(Self, w),
              mst |-> IF kind = "circuit"
                      THEN maximum_spanning_tree(graph, [k \in 1..Len(arms) |-> At(w, arms[k])])
                      ELSE None]
  /\ UNCHANGED <<structure_vars, status, initial, union_find, driver, csar_vars>>

\* structure.reachability_graph(&structure.optimal(&weights).unwrap())
ReachabilityGraph(w) ==
  /\ status = "ok"
  /\ Mutated
  /\ \E basis \in {optimal(Self, w)} :
       /\ basis.tag = "Some"
       /\ last' = [op |-> "reachability_graph", w |-> w, basis |-> basis.val,
                   result |-> reachability_graph(Self, basis.val)]
  /\ UNCHANGED <<structure_vars, status, initial, union_find, driver, csar_vars>>

\* structure.fast_maxgap(&weights)
FastMaxgap(w) ==
  /\ status = "ok"
  /\ Mutated
  /\ arms # <<>>
  /\ last' = [op |-> "fast_maxgap", w |-> w, result |-> fast_maxgap(Self, w)]
  /\ UNCHANGED <<structure_vars, status, initial, union_find, driver, csar_vars>>

\* naive_maxgap(&structure, &weights)
NaiveMaxgap(w) ==
  /\ status = "ok"
  /\ Mutated
  /\ arms # <<>>
  /\ \E checks \in BOOLEAN :
       last' = [op |-> "naive_maxgap", w |-> w, result |-> naive_maxgap(Self, w, checks)]
  /\ UNCHANGED <<structure_vars, status, initial, union_find, driver, csar_vars>>

Next ==
  \/ \E i \in 0..arm_num : ContractArm(i)
  \/ \E i \in 0..arm_num : DeleteArm(i)
  \/ \E w \in WeightVectors(Self) : Optimal(w)
  \/ \E w \in WeightVectors(Self) : ReachabilityGraph(w)
  \/ \E w \in WeightVectors(Self) : FastMaxgap(w)
  \/ \E w \in WeightVectors(Self) : NaiveMaxgap(w)

Spec == Init /\ [][Next]_vars

(***************************************************************************)
(* sampler.rs.  The running mean is the exact rational <<num, den>>,       *)
(* den > 0, in lowest terms.                                               *)
(***************************************************************************)
\* F applied to the value of e, e being evaluated once.
Bind(e, F(_)) == CHOOSE y \in {F(x) : x \in {e}} : TRUE

RECURSIVE Gcd(_, _)
Gcd(a, b) == IF b = 0 THEN a ELSE Bind(a % b, LAMBDA r : Gcd(b, r))

Abs(x) == IF x < 0 THEN 0 - x ELSE x

Sampler_new == [trial |-> 0, mean |-> <<0, 1>>]

\* observe forgetting to weigh the old mean by trial.
observe_unweighted(sm, val) ==
  LET n == sm.mean[1] + val * sm.mean[2]
      d == sm.mean[2] * (sm.trial + 1)
  IN  Bind(Gcd(Abs(n), d),
           LAMBDA g : [trial |-> sm.trial + 1, mean |-> <<n \div g, d \div g>>])

\* mean = (mean * trial + val) / (trial + 1); trial += 1
observe(sm, val) ==
  LET n == sm.mean[1] * sm.trial + val * sm.mean[2]
      d == sm.mean[2] * (sm.trial + 1)
  IN  Bind(Gcd(Abs(n), d),
           LAMBDA g : [trial |-> sm.trial + 1, mean |-> <<n \div g, d \div g>>])

get_mean(sm) == sm.mean

(***************************************************************************)
(* csar (algorithm.rs)                                                     *)
(***************************************************************************)
\* `for _ in 0..100`
SAMPLES == 100

\* ObserveTimes stopping after the first call of arms.sample(i).
ObserveTimes_once(sm, val, k) == observe(sm, val)

RECURSIVE ObserveTimes(_, _, _)
\* k >= 1 calls of arms.sample(i), each returning val, fed to one sampler:
\* the first k \div 2 calls, then the others.
ObserveTimes(sm, val, k) ==
  IF k = 1 THEN observe(sm, val)
  ELSE Bind(ObserveTimes(sm, val, k \div 2),
            LAMBDA half : ObserveTimes(half, val, k - (k \div 2)))

RECURSIVE SampleArms(_, _, _)
\* `for i in structure.get_arms()`: obs[i] is what the oracle returns for arm
\* i during this round.
SampleArms(sms, ids, obs) ==
  IF ids = <<>> THEN sms
  ELSE Bind([sms EXCEPT ![Head(ids) + 1] = ObserveTimes(@, obs[Head(ids)], SAMPLES)],
            LAMBDA next : SampleArms(next, Tail(ids), obs))

RECURSIVE Lcm(_, _)
\* The least common denominator of the means sms[k..].
Lcm(sms, k) ==
  IF k > Len(sms) THEN 1
  ELSE Bind(Lcm(sms, k + 1),
            LAMBDA r : (r \div Gcd(r, get_mean(sms[k])[2])) * get_mean(sms[k])[2])

\* samplers.iter().map(|sampler| sampler.get_mean()).collect(), the means
\* written as integers over their least common denominator (the unit in
\* which the round's weights are counted).
MeanWeights(sms) ==
  Bind(Lcm(sms, 1),
       LAMBDA l : [k \in 1..Len(sms) |-> get_mean(sms[k])[1] * (l \div get_mean(sms[k])[2])])

\* csar_decide whose reject branch contracts too.
csar_decide_contracts(s, w, checks) ==
  Bind(optimal(s, w), LAMBDA best_arms :
    Bind(fast_maxgap(s, w), LAMBDA maxgap_arm :
      IF best_arms.tag # "Some" \/ maxgap_arm.tag # "Some" THEN Panic
      ELSE Bind(contract_arm(s, maxgap_arm.val, checks), LAMBDA next :
             IF next.tag # "Some" THEN Panic
             ELSE Some([arm |-> maxgap_arm.val,
                        accept |-> contains(best_arms.val, maxgap_arm.val),
                        structure |-> next.val]))))

\* csar_decide with the two branches exchanged.
csar_decide_swapped(s, w, checks) ==
  Bind(optimal(s, w), LAMBDA best_arms :
    Bind(fast_maxgap(s, w), LAMBDA maxgap_arm :
      IF best_arms.tag # "Some" \/ maxgap_arm.tag # "Some" THEN Panic
      ELSE Bind(~contains(best_arms.val, maxgap_arm.val), LAMBDA accept :
             Bind(IF accept THEN contract_arm(s, maxgap_arm.val, checks)
                  ELSE delete_arm(s, maxgap_arm.val),
                  LAMBDA next :
                    IF next.tag # "Some" THEN Panic
                    ELSE Some([arm |-> maxgap_arm.val, accept |-> accept,
                               structure |-> next.val])))))

\* The decision of one round, lines 25-34: Panic, or Some of the removed arm,
\* whether it was accepted, and the structure left.
csar_decide(s, w, checks) ==
  Bind(optimal(s, w), LAMBDA best_arms :
    Bind(fast_maxgap(s, w), LAMBDA maxgap_arm :
      IF best_arms.tag # "Some" \/ maxgap_arm.tag # "Some" THEN Panic
      ELSE Bind(contains(best_arms.val, maxgap_arm.val), LAMBDA accept :
             Bind(IF accept THEN contract_arm(s, maxgap_arm.val, checks)
                  ELSE delete_arm(s, maxgap_arm.val),
                  LAMBDA next :
                    IF next.tag # "Some" THEN Panic
                    ELSE Some([arm |-> maxgap_arm.val, accept |-> accept,
                               structure |-> next.val])))))

\* The sampling of one round, lines 15-24: the samplers and the weights it
\* leaves.
csar_sample(s, sms0, obs) ==
  Bind(SampleArms(sms0, s.arms, obs), LAMBDA sms :
    [samplers |-> sms, weights |-> MeanWeights(sms)])

\* One iteration of `for _ in 0..n`.
CsarRoundWith(obs) ==
  /\ status = "ok"
  /\ round < Len(samplers)
  /\ \E r \in {csar_sample(Self, samplers, obs)} :
       /\ samplers' = r.samplers
       /\ \E checks \in BOOLEAN : \E d \in {csar_decide(Self, r.weights, checks)} :
            IF d.tag = "Panic"
            THEN /\ status' = "panic"
                 /\ last' = [op |-> "csar", weights |-> r.weights]
                 /\ UNCHANGED <<structure_vars, accepted_arms, round>>
            ELSE /\ status' = "ok"
                 /\ last' = [op |-> "csar", weights |-> r.weights,
                             arm |-> d.val.arm, accept |-> d.val.accept]
                 /\ SetStructure(d.val.structure)
                 /\ accepted_arms' = IF d.val.accept
                                     THEN Append(accepted_arms, d.val.arm)
                                     ELSE accepted_arms
                 /\ round' = round + 1
  /\ UNCHANGED <<initial, union_find, driver, means>>

\* The oracle of the deterministic case: sample(i) is the mean of arm i.
CsarRoundDeterministic == CsarRoundWith([i \in 0..(arm_num - 1) |-> At(means, i)])

\* Any oracle: during a round the oracle returns one of 1..MaxSample per
\* surviving arm (the others are not sampled).
CsarRound == \E obs \in [Range(arms) -> 1..MaxSample] : CsarRoundWith(obs)

InitCsar ==
  /\ InitWith(InitStructures)
  /\ means = <<>>
  /\ samplers = [k \in 1..arm_num |-> Sampler_new]

\* Pairwise distinct means 1..n, one per arm.
InitDeterministic ==
  /\ InitWith(InitStructures)
  /\ means \in {m \in [1..arm_num -> 1..arm_num] : \A j, k \in 1..arm_num : j # k => m[j] # m[k]}
  /\ samplers = [k \in 1..arm_num |-> Sampler_new]

CsarSpec == InitCsar /\ [][CsarRound]_vars

DeterministicSpec == InitDeterministic /\ [][CsarRoundDeterministic]_vars

(***************************************************************************)
(* Reference notions the properties are stated with.                       *)
(***************************************************************************)
\* The edges of g at the positions P, as a graph on the same vertices.
SubGraph(g, P) ==
  [edges |-> [k \in 1..Cardinality(P) |->
                At(g.edges, CHOOSE p \in P : Cardinality({q \in P : q < p}) = k - 1)],
   vnum |-> g.vnum]

\* The edge positions P form a spanning tree of g.
IsSpanningTree(g, P) ==
  /\ Cardinality(P) = g.vnum - 1
  /\ Connected(SubGraph(g, P))

SpanningTrees(g) == {P \in SUBSET (0..(Len(g.edges) - 1)) : IsSpanningTree(g, P)}

RECURSIVE SetSum(_, _)
SetSum(P, w) ==
  IF P = {} THEN 0 ELSE LET p == CHOOSE x \in P : TRUE IN At(w, p) + SetSum(P \ {p}, w)

\* The arm ids of the basis arms on the fundamental circuit of the
\* non-basis arm e: the tree edges whose removal separates e's endpoints.
FundamentalCircuit(s, basis, e) ==
  IF s.kind = "uniform" THEN Range(basis)
  ELSE LET ends == At(s.graph.edges, position(s.arms, e))
           T == {position(s.arms, b) : b \in Range(basis)}
       IN  {b \in Range(basis) :
              ends[2] \notin Component(SubGraph(s.graph, T \ {position(s.arms, b)}).edges,
                                       {ends[1]})}

RECURSIVE Reach(_, _)
\* The vertices of the directed graph rg reachable from the set C.
Reach(rg, C) ==
  LET D == C \cup {rg.edges[k][2] : k \in {j \in 1..Len(rg.edges) : rg.edges[j][1] \in C}}
  IN  IF D = C THEN C ELSE Reach(rg, D)

Acyclic(rg) ==
  \A k \in 1..Len(rg.edges) : rg.edges[k][1] \notin Reach(rg, {rg.edges[k][2]})

\* A structure that has a basis: rank <= |arms|, or a connected graph.
Feasible(s) ==
  IF s.kind = "uniform" THEN s.rank <= Len(s.arms) ELSE Connected(s.graph)

(***************************************************************************)
(* C9: after any sequence of contract_arm/delete_arm calls on surviving    *)
(* arm ids, arms() holds exactly the original identifiers that were not    *)
(* removed, each exactly once: a call that returns removes the identifier  *)
(* it was given and no other, and renumbers none.                          *)
(***************************************************************************)
NoDuplicate(v) == \A j, k \in 1..Len(v) : j # k => v[j] # v[k]

ArmIdStability ==
  /\ [](NoDuplicate(arms) /\ Range(arms) \subseteq Range(initial.arms))
  /\ [][(last'.op \in {"contract_arm", "delete_arm"} /\ status' = "ok")
          => Range(arms') = Range(arms) \ {last'.arm}]_vars

\* Two removals in, the last arm has been swapped into an earlier position.
ArmIdStabilityWitness ==
  /\ last.op \in {"contract_arm", "delete_arm"}
  /\ status = "ok"
  /\ Len(arms) = arm_num - 2
  /\ \E k \in 1..(Len(arms) - 1) : arms[k] > arms[k + 1]

(***************************************************************************)
(* The gap of the definition: the optimum weight minus the greatest weight *)
(* of a basis that flips the membership of arm i (a basis avoiding i when  *)
(* i is in the optimal basis, a basis holding i otherwise), -infinity when *)
(* there is no such basis.                                                 *)
(***************************************************************************)
\* The bases of s as sets of arm ids.
Bases(s) ==
  IF s.kind = "uniform"
  THEN {B \in SUBSET Range(s.arms) : Cardinality(B) = s.rank}
  ELSE {{At(s.arms, p) : p \in P} : P \in SpanningTrees(s.graph)}

RECURSIVE IdSum(_, _)
IdSum(B, w) ==
  IF B = {} THEN 0 ELSE LET a == CHOOSE x \in B : TRUE IN At(w, a) + IdSum(B \ {a}, w)

MaxWeight(BS, w) ==
  IF BS = {} THEN NEG_INFINITY
  ELSE LET B == CHOOSE X \in BS : \A Y \in BS : IdSum(Y, w) <= IdSum(X, w)
       IN  IdSum(B, w)

GapOf(s, w, opt_arms, i) ==
  FSub(MaxWeight(Bases(s), w),
       MaxWeight({B \in Bases(s) : (i \in B) = ~contains(opt_arms, i)}, w))

FullStructure == Self = initial

(***************************************************************************)
(* C1: for a feasible structure with all n arms surviving and pairwise     *)
(* distinct weights, fast_maxgap and naive_maxgap return the same arm id.  *)
(***************************************************************************)
FastNaiveAgreement ==
  (last.op = "fast_maxgap" /\ FullStructure /\ Feasible(Self) /\ Distinct(Self, last.w))
    => /\ last.result.tag = "Some"
       /\ \A checks \in BOOLEAN : naive_maxgap(Self, last.w, checks) = last.result

(***************************************************************************)
(* C10: naive_maxgap returns a surviving arm whose gap is >= the gap of    *)
(* every surviving arm.                                                    *)
(***************************************************************************)
NaiveMaxgapMaximal ==
  (last.op = "naive_maxgap" /\ Feasible(Self) /\ Len(last.w) = Len(arms))
    => /\ last.result.tag = "Some"
       /\ contains(arms, last.result.val)
       /\ \A k \in Range(arms) :
            GapOf(Self, last.w, optimal(Self, last.w).val, k)
              <= GapOf(Self, last.w, optimal(Self, last.w).val, last.result.val)

(***************************************************************************)
(* C5: in reachability_graph(B), B = optimal(w) of a feasible structure, a *)
(* basis primary b has a directed path to a non-basis primary e if and     *)
(* only if b lies on the fundamental circuit of e with respect to B.       *)
(***************************************************************************)
ReachabilitySemantics ==
  (last.op = "reachability_graph" /\ Feasible(Self))
    => /\ last.result.tag = "Some"
       /\ \A b \in Range(last.basis) : \A e \in Range(arms) \ Range(last.basis) :
            (e \in Reach(last.result.val, {b})) <=> (b \in FundamentalCircuit(Self, last.basis, e))

\* After a removal from a graph of 9 vertices: the doubling table holds a
\* jump of 4 edges (an auxiliary vertex below an auxiliary vertex), a
\* non-basis arm is reached from a basis arm of its circuit through
\* auxiliary vertices only, and another basis arm is off the circuit.
ReachabilitySemanticsWitness ==
  /\ last.op = "reachability_graph"
  /\ kind = "circuit"
  /\ Feasible(Self)
  /\ Len(arms) < arm_num
  /\ last.result.tag = "Some"
  /\ \E k \in 1..Len(last.result.val.edges) :
       /\ last.result.val.edges[k][1] >= arm_num
       /\ last.result.val.edges[k][2] >= arm_num
  /\ \E e \in Range(arms) \ Range(last.basis) : \E b1, b2 \in Range(last.basis) :
       /\ b1 \in FundamentalCircuit(Self, last.basis, e)
       /\ e \in Reach(last.result.val, {b1})
       /\ ~contains(last.result.val.edges, <<b1, e>>)
       /\ b2 \notin FundamentalCircuit(Self, last.basis, e)

(***************************************************************************)
(* C6: the graph reachability_graph returns is acyclic, a basis primary    *)
(* has in-degree 0, a non-basis primary has out-degree 0, and both sweeps  *)
(* of fast_maxgap bring every degree to 0.                                 *)
(***************************************************************************)
ReachabilityDag ==
  (last.op = "reachability_graph" /\ Feasible(Self))
    => /\ last.result.tag = "Some"
       /\ LET rg == last.result.val
          IN  /\ Acyclic(rg)
              /\ \A k \in 1..Len(rg.edges) :
                   /\ rg.edges[k][2] \notin Range(last.basis)
                   /\ rg.edges[k][1] \notin (Range(arms) \ Range(last.basis))
              /\ BfsDone(ToBasis(rg, arm_num, last.w))
              /\ BfsDone(FromBasis(rg, arm_num, last.w))

\* After a contraction left two parallel edges, the graph of a basis and a
\* non-basis arm has an edge.
ReachabilityDagWitness ==
  /\ last.op = "reachability_graph"
  /\ kind = "circuit"
  /\ Len(arms) < arm_num
  /\ last.result.tag = "Some"
  /\ Len(last.result.val.edges) > 0
  /\ \E j, k \in 1..Len(graph.edges) : j # k /\ graph.edges[j] = graph.edges[k]

(***************************************************************************)
(* C7: on a connected multigraph maximum_spanning_tree returns the edge    *)
(* indices of a spanning tree (vnum - 1 edges, connecting, no self-loop)   *)
(* whose weight is >= the weight of every spanning tree.                   *)
(***************************************************************************)
MappedWeights == [k \in 1..Len(arms) |-> At(last.w, arms[k])]

MstCorrect ==
  (last.op = "optimal" /\ kind = "circuit" /\ Connected(graph))
    => /\ last.mst.tag = "Some"
       /\ NoDuplicate(last.mst.val)
       /\ IsSpanningTree(graph, Range(last.mst.val))
       /\ \A p \in Range(last.mst.val) : At(graph.edges, p)[1] # At(graph.edges, p)[2]
       /\ \A T \in SpanningTrees(graph) :
            SetSum(T, MappedWeights) <= SetSum(Range(last.mst.val), MappedWeights)

\* After a contraction left two parallel edges, Kruskal took an edge that is
\* not the first of the list and left one out.
MstCorrectWitness ==
  /\ last.op = "optimal"
  /\ kind = "circuit"
  /\ Connected(graph)
  /\ Len(arms) < arm_num
  /\ \E j, k \in 1..Len(graph.edges) : j # k /\ graph.edges[j] = graph.edges[k]
  /\ last.mst.tag = "Some"
  /\ Len(last.mst.val) >= 2
  /\ Len(last.mst.val) < Len(arms)
  /\ last.mst.val[1] # 0

(***************************************************************************)
(* C8: maximum_spanning_tree returns None whenever the surviving edges do  *)
(* not connect all vnum vertices, and Some only when they do.              *)
(***************************************************************************)
MstNoneIffDisconnected ==
  (last.op = "optimal" /\ kind = "circuit" /\ last.mst.tag # "Panic")
    => ((last.mst.tag = "None") <=> ~Connected(graph))

(***************************************************************************)
(* C3: csar on a feasible structure with n arms performs exactly n rounds  *)
(* without aborting, each round removes exactly one surviving arm, and     *)
(* after the last round no arm survives.                                   *)
(***************************************************************************)
CsarRounds ==
  /\ [](/\ status = "ok"
        /\ round <= initial.arm_num
        /\ round + Len(arms) = initial.arm_num
        /\ NoDuplicate(arms)
        /\ (round = initial.arm_num => arms = <<>>))
  /\ [][/\ round' = round + 1
        /\ contains(arms, last'.arm)
        /\ Range(arms') = Range(arms) \ {last'.arm}]_vars

\* The last of four rounds on a graph has run: rounds that accepted and a
\* round that rejected.
CsarRoundsWitness ==
  /\ kind = "circuit"
  /\ initial.arm_num = MaxEdges
  /\ round = initial.arm_num
  /\ arms = <<>>
  /\ Len(accepted_arms) = initial.graph.vnum - 1
  /\ Len(accepted_arms) < round

(***************************************************************************)
(* C4: in every csar round, with B = optimal(weights) and the arm a that    *)
(* fast_maxgap(weights) returns on the structure and the weights of the    *)
(* round: if a is in B, a is appended to the output and contract_arm(a) is *)
(* applied, otherwise delete_arm(a) is applied and the output is left      *)
(* alone; the output never holds an arm twice.                             *)
(***************************************************************************)
SelfNext ==
  [kind |-> kind', arm_num |-> arm_num', arms |-> arms', rank |-> rank', graph |-> graph']

CsarAcceptReject ==
  /\ []NoDuplicate(accepted_arms)
  /\ [][status' = "ok" =>
          LET B == optimal(Self, last'.weights)
              a == fast_maxgap(Self, last'.weights)
          IN  /\ B.tag = "Some" /\ a.tag = "Some"
              /\ last'.arm = a.val
              /\ IF contains(B.val, a.val)
                 THEN /\ accepted_arms' = Append(accepted_arms, a.val)
                      /\ \E checks \in BOOLEAN :
                           contract_arm(Self, a.val, checks) = Some(SelfNext)
                 ELSE /\ accepted_arms' = accepted_arms
                      /\ delete_arm(Self, a.val) = Some(SelfNext)]_vars

\* A round has rejected after two rounds accepted, the second accepted arm
\* having the smaller id.
CsarAcceptRejectWitness ==
  /\ last.op = "csar"
  /\ status = "ok"
  /\ ~last.accept
  /\ Len(accepted_arms) = 2
  /\ accepted_arms[1] > accepted_arms[2]
  /\ ~contains(accepted_arms, last.arm)

(***************************************************************************)
(* C2: with a deterministic oracle (sample(i) is the mean of arm i) and    *)
(* pairwise distinct means, csar on a feasible structure returns, as a     *)
(* set, optimal(true means) of the initial structure.                      *)
(***************************************************************************)
CsarDeterministicOptimal ==
  /\ status = "ok"
  /\ round = initial.arm_num =>
       /\ optimal(initial, means).tag = "Some"
       /\ Range(accepted_arms) = Range(optimal(initial, means).val)
       /\ Len(accepted_arms) = Len(optimal(initial, means).val)

\* csar has returned on a graph with a cycle: an edge was rejected, and the
\* accepted arms do not come in increasing order of their ids.
CsarDeterministicOptimalWitness ==
  /\ kind = "circuit"
  /\ round = initial.arm_num
  /\ round > 0
  /\ Len(accepted_arms) < round
  /\ Len(accepted_arms) >= 2
  /\ accepted_arms[1] > accepted_arms[2]

(***************************************************************************)
(* C11: fast_maxgap returns a surviving arm with the greatest gap, the     *)
(* smallest arm id among the surviving arms that tie for it, also after    *)
(* contract_arm and delete_arm reordered the arms by swap_remove.          *)
(***************************************************************************)
\* The gaps vector fast_maxgap holds when it reaches its last loop.
fast_gaps(s, w) ==
  LET opt == optimal(s, w)
      rg == reachability_graph(s, opt.val)
  IN  Gaps(s, opt.val, ToBasis(rg.val, s.arm_num, w), FromBasis(rg.val, s.arm_num, w), w)

FastMaxgapSmallestId ==
  (last.op = "fast_maxgap" /\ Feasible(Self))
    => /\ last.result.tag = "Some"
       /\ contains(arms, last.result.val)
       /\ LET g == fast_gaps(Self, last.w)
          IN  \A k \in Range(arms) :
                /\ g[k] <= g[last.result.val]
                /\ (g[k] = g[last.result.val] => last.result.val <= k)

(***************************************************************************)
(* C12: for every surviving arm the gap fast_maxgap computes is the gap of *)
(* the definition: for a basis arm b, w(b) minus the greatest weight of    *)
(* the non-basis arms whose fundamental circuit holds b (-infinity when    *)
(* there is none); for a non-basis arm e, the least weight of the basis    *)
(* arms on the fundamental circuit of e (+infinity when there is none)     *)
(* minus w(e).                                                             *)
(***************************************************************************)
SetMax(S) == IF S = {} THEN NEG_INFINITY ELSE CHOOSE x \in S : \A y \in S : y <= x

SetMin(S) == IF S = {} THEN INFINITY ELSE CHOOSE x \in S : \A y \in S : x <= y

GapDefinition(s, w, basis, i) ==
  IF contains(basis, i)
  THEN FSub(At(w, i),
            SetMax({At(w, e) : e \in {x \in Range(s.arms) \ Range(basis) :
                                        i \in FundamentalCircuit(s, basis, x)}}))
  ELSE FSub(SetMin({At(w, b) : b \in FundamentalCircuit(s, basis, i)}), At(w, i))

FastGapsAreDefinition ==
  (last.op = "fast_maxgap" /\ Feasible(Self))
    => /\ last.result.tag = "Some"
       /\ \A i \in Range(arms) :
            fast_gaps(Self, last.w)[i] = GapDefinition(Self, last.w, optimal(Self, last.w).val, i)

(***************************************************************************)
(* C13: after any sequence of contract_arm and delete_arm,                 *)
(* UniformMatroid::optimal with distinct weights returns exactly the       *)
(* rank-many surviving arms of greatest weight, and returns None if and    *)
(* only if fewer arms survive than the rank.                               *)
(***************************************************************************)
UniformOptimal ==
  (last.op = "optimal" /\ kind = "uniform" /\ Distinct(Self, last.w))
    => /\ (last.result.tag = "None") <=> (Len(arms) < rank)
       /\ last.result.tag \in {"None", "Some"}
       /\ last.result.tag = "Some" =>
            /\ Len(last.result.val) = rank
            /\ NoDuplicate(last.result.val)
            /\ Range(last.result.val) \subseteq Range(arms)
            /\ \A a \in Range(last.result.val) : \A b \in Range(arms) \ Range(last.result.val) :
                 At(last.w, a) > At(last.w, b)

\* After removals that reordered the arms, as many arms survive as the rank,
\* at least two, and the arms returned are not in the order of the vector.
UniformOptimalWitness ==
  /\ last.op = "optimal"
  /\ kind = "uniform"
  /\ Distinct(Self, last.w)
  /\ Len(arms) < arm_num
  /\ rank < initial.rank
  /\ rank = Len(arms)
  /\ rank >= 2
  /\ last.result.tag = "Some"
  /\ last.result.val # arms
  /\ \E k \in 1..(Len(arms) - 1) : arms[k] > arms[k + 1]

(***************************************************************************)
(* C14: contract_by_edge(i), for every edge (s, t) = edges[i] with s <= t, *)
(* a self-loop s = t included: every endpoint equal to t becomes s, every  *)
(* endpoint greater than t decreases by one, every other endpoint stays,   *)
(* vnum decreases by one, and edges[i] alone is removed, the last edge     *)
(* taking position i.                                                      *)
(***************************************************************************)
\* The graph the statement describes.
ContractedGraph(g, i) ==
  LET s == Min2(At(g.edges, i)[1], At(g.edges, i)[2])
      t == Max2(At(g.edges, i)[1], At(g.edges, i)[2])
      ren(x) == IF x = t THEN s ELSE IF x > t THEN x - 1 ELSE x
  IN  [vnum |-> g.vnum - 1,
       edges |-> swap_remove([k \in 1..Len(g.edges) |->
                                <<ren(g.edges[k][1]), ren(g.edges[k][2])>>], i)]

ContractByEdge ==
  [][(last'.op = "contract_arm" /\ status' = "ok" /\ kind = "circuit")
       => graph' = ContractedGraph(graph, position(arms, last'.arm))]_vars

(***************************************************************************)
(* C15: for a graph built with from_edges or add_edge, after any sequence  *)
(* of contract_by_edge and delete_edge on valid positions, vnum equals the *)
(* greatest endpoint plus one whenever at least one edge remains.          *)
(***************************************************************************)
VnumIsMaxEndpoint ==
  (kind = "circuit" /\ status = "ok" /\ Len(graph.edges) >= 1)
    => graph.vnum = MaxEndpoint(graph.edges) + 1

(***************************************************************************)
(* A UnionFind driven by arbitrary calls of its public methods.            *)
(***************************************************************************)
MaxUf == 6
MaxUfSize == 4

UfNodes == DOMAIN union_find.par

RECURSIVE RootWithin(_, _, _)
\* The root above v, or -1 when the parents of v run into a cycle.
RootWithin(f, v, fuel) ==
  IF f.par[v] = v THEN v
  ELSE IF fuel = 0 THEN -1
  ELSE RootWithin(f, f.par[v], fuel - 1)

Root(f, v) == RootWithin(f, v, Cardinality(DOMAIN f.par))

\* The sets the calls of unite made so far have formed, kept in last.classes:
\* classes after unite(u, v).
United(classes, u, v) ==
  LET cu == CHOOSE c \in classes : u \in c
      cv == CHOOSE c \in classes : v \in c
  IN  (classes \ {cu, cv}) \cup {cu \cup cv}

UfInit ==
  /\ kind = "union_find" /\ arm_num = 0 /\ arms = <<>> /\ rank = 0
  /\ graph = Graph_new(0)
  /\ initial = [kind |-> "union_find", arm_num |-> 0, arms |-> <<>>, rank |-> 0,
                graph |-> Graph_new(0)]
  /\ status = "ok"
  /\ last = [op |-> "new", classes |-> {{v} : v \in 0..(MaxUf - 1)}]
  /\ means = <<>> /\ samplers = <<>> /\ accepted_arms = <<>> /\ round = 0
  /\ union_find = UnionFind_new(MaxUf)
  /\ driver = [pc |-> "none"]

uf_rest == <<structure_vars, initial, csar_vars, driver>>

\* size is a usize; the model follows it up to MaxUfSize.
UfUnite(u, v) ==
  /\ status = "ok"
  /\ \E r \in {unite(union_find, u, v)} :
       /\ \A x \in UfNodes : r.size[x] <= MaxUfSize
       /\ union_find' = r
  /\ last' = [op |-> "unite", u |-> u, v |-> v, classes |-> United(last.classes, u, v)]
  /\ UNCHANGED <<status, uf_rest>>

\* find_root recurses along par; on a cycle of parents it never returns and
\* the process aborts on stack exhaustion.
UfFindRoot(v) ==
  /\ status = "ok"
  /\ IF Root(union_find, v) = -1
     THEN /\ status' = "panic"
          /\ last' = [op |-> "find_root", v |-> v, classes |-> last.classes]
          /\ UNCHANGED union_find
     ELSE /\ \E r \in {find_root(union_find, v)} :
               /\ union_find' = r.uf
               /\ last' = [op |-> "find_root", v |-> v, result |-> r.root,
                           classes |-> last.classes]
          /\ UNCHANGED status
  /\ UNCHANGED uf_rest

UfSame(u, v) ==
  /\ status = "ok"
  /\ IF Root(union_find, u) = -1 \/ Root(union_find, v) = -1
     THEN /\ status' = "panic"
          /\ last' = [op |-> "same", u |-> u, v |-> v, classes |-> last.classes]
          /\ UNCHANGED union_find
     ELSE /\ \E r \in {same(union_find, u, v)} :
               /\ union_find' = r.uf
               /\ last' = [op |-> "same", u |-> u, v |-> v, result |-> r.res,
                           classes |-> last.classes]
          /\ UNCHANGED status
  /\ UNCHANGED uf_rest

UfNext ==
  \/ \E u, v \in UfNodes : UfUnite(u, v)
  \/ \E v \in UfNodes : UfFindRoot(v)
  \/ \E u, v \in UfNodes : UfSame(u, v)

UfSpec == UfInit /\ [][UfNext]_vars

\* The elements of the set of v.
UfSet(f, v) == {x \in DOMAIN f.par : Root(f, x) = Root(f, v)}

(***************************************************************************)
(* C16: after any sequence of UnionFind calls, unite(u, v) leaves par and  *)
(* size unchanged when u and v are already in one set, and otherwise hangs *)
(* the root of the smaller set under the root of the larger, so that size  *)
(* at every root counts the elements of the root's set.                    *)
(***************************************************************************)
UniteBySize ==
  [][last'.op = "unite" =>
       LET b == union_find
           ru == Root(b, last'.u)
           rv == Root(b, last'.v)
       IN  /\ ru = rv => union_find' = b
           /\ ru # rv =>
                \E big, small \in {ru, rv} :
                  /\ big # small
                  /\ Cardinality(UfSet(b, small)) <= Cardinality(UfSet(b, big))
                  /\ union_find'.par = [b.par EXCEPT ![small] = big]
           /\ \A r \in UfNodes :
                union_find'.par[r] = r => union_find'.size[r] = Cardinality(UfSet(union_find', r))]_vars

(***************************************************************************)
(* C17: after any contract_arm and delete_arm, two weights vectors of the  *)
(* original length that agree on every surviving arm, differing in the     *)
(* entries of removed arms only, give the same optimal and the same        *)
(* fast_maxgap.                                                            *)
(***************************************************************************)
\* The weights w with the entries of the removed arms replaced by f.
Reweighted(s, w, f) ==
  [i \in 1..Len(w) |-> IF (i - 1) \in Range(s.arms) THEN w[i] ELSE f[i - 1]]

RemovedArms(s) == (0..(s.arm_num - 1)) \ Range(s.arms)

\* Entries tried for a removed arm: below, among and above the survivors'.
RemovedWeights == {0, 2, 9}

RemovedWeightsIgnored ==
  /\ last.op = "optimal" =>
       \A f \in [RemovedArms(Self) -> RemovedWeights] :
         optimal(Self, Reweighted(Self, last.w, f)) = last.result
  /\ last.op = "fast_maxgap" =>
       \A f \in [RemovedArms(Self) -> RemovedWeights] :
         fast_maxgap(Self, Reweighted(Self, last.w, f)) = last.result

RemovedWeightsIgnoredWitness ==
  /\ last.op = "fast_maxgap" /\ kind = "circuit"
  /\ Cardinality(RemovedArms(Self)) >= 2 /\ Len(arms) >= 2
  /\ \E k \in 1..(Len(arms) - 1) : arms[k] > arms[k + 1]
  /\ last.result.tag = "Some"
  /\ \E f \in [RemovedArms(Self) -> RemovedWeights] :
       /\ \A a \in RemovedArms(Self) : f[a] = 9
       /\ Reweighted(Self, last.w, f) # last.w
       /\ fast_maxgap(Self, Reweighted(Self, last.w, f)) = last.result

(***************************************************************************)
(* C18: naive_maxgap(S, w), w of the original length arm_num, returns the  *)
(* id of a surviving arm for every feasible S with at least one surviving  *)
(* arm, reduced structures included; it does not abort.                    *)
(***************************************************************************)
NaiveMaxgapReturns ==
  (last.op = "naive_maxgap" /\ Feasible(Self) /\ Len(arms) >= 1 /\ Len(last.w) = arm_num)
    => /\ last.result.tag = "Some"
       /\ contains(arms, last.result.val)

(***************************************************************************)
(* C19: contract_arm(i) and delete_arm(i) with an id that is not a         *)
(* surviving arm abort, for UniformMatroid and CircuitMatroid alike: the   *)
(* call never returns normally, and so removes no other arm and changes    *)
(* neither the rank nor the graph.                                         *)
(***************************************************************************)
MissingArmAborts ==
  [][(last'.op \in {"contract_arm", "delete_arm"} /\ ~contains(arms, last'.arm))
       => /\ status' = "panic"
          /\ arms' = arms /\ rank' = rank /\ graph' = graph]_vars

\* delete_arm of an arm removed before, after the survivors were reordered.
MissingArmAbortsWitness ==
  /\ status = "panic"
  /\ last.op = "delete_arm"
  /\ ~contains(arms, last.arm)
  /\ contains(initial.arms, last.arm)
  /\ \E k \in 1..(Len(arms) - 1) : arms[k] > arms[k + 1]

(***************************************************************************)
(* C20: every round of csar calls the oracle exactly 100 times for each    *)
(* arm surviving at the start of the round and never for a removed arm,    *)
(* whose sampler is not updated again; over a whole run the oracle is      *)
(* called at most 100 * n * n times.  Each call of the oracle is fed to    *)
(* one observe, which counts it in the sampler's trial.                    *)
(***************************************************************************)
RECURSIVE TotalTrials(_)
TotalTrials(sms) ==
  IF sms = <<>> THEN 0 ELSE Head(sms).trial + TotalTrials(Tail(sms))

CsarSampling ==
  /\ [](TotalTrials(samplers) <= SAMPLES * arm_num * arm_num)
  /\ [][\A i \in 0..(arm_num - 1) :
          IF contains(arms, i)
          THEN At(samplers', i).trial = At(samplers, i).trial + SAMPLES
          ELSE At(samplers', i) = At(samplers, i)]_vars

\* Three rounds in: an arm removed in the first round, one removed in the
\* second, and a survivor sampled in all three.
CsarSamplingWitness ==
  /\ status = "ok" /\ round = 3 /\ arms # <<>>
  /\ \E i \in 0..(arm_num - 1) : ~contains(arms, i) /\ At(samplers, i).trial = SAMPLES
  /\ \E i \in 0..(arm_num - 1) : ~contains(arms, i) /\ At(samplers, i).trial = 2 * SAMPLES
  /\ \A i \in Range(arms) : At(samplers, i).trial = 3 * SAMPLES

(***************************************************************************)
(* A Sampler driven on its own: new(), then observe(x_1), observe(x_2),    *)
(* ...  The sampler is samplers[1]; last.observed lists the values passed  *)
(* so far.                                                                 *)
(***************************************************************************)
MaxObservations == 4
MaxObserved == 2

SamplerInit ==
  /\ kind = "sampler" /\ arm_num = 0 /\ arms = <<>> /\ rank = 0
  /\ graph = Graph_new(0)
  /\ initial = [kind |-> "sampler", arm_num |-> 0, arms |-> <<>>, rank |-> 0,
                graph |-> Graph_new(0)]
  /\ status = "ok"
  /\ last = [op |-> "new", observed |-> <<>>]
  /\ means = <<>> /\ accepted_arms = <<>> /\ round = 0
  /\ union_find = UnionFind_new(0)
  /\ driver = [pc |-> "none"]
  /\ samplers = <<Sampler_new>>

SamplerObserve(val) ==
  /\ status = "ok"
  /\ Len(last.observed) < MaxObservations
  /\ \E r \in {observe(samplers[1], val)} : samplers' = <<r>>
  /\ last' = [op |-> "observe", observed |-> Append(last.observed, val)]
  /\ UNCHANGED <<structure_vars, status, initial, union_find, driver, means, accepted_arms, round>>

SamplerNext == \E val \in (0 - 1)..MaxObserved : SamplerObserve(val)

SamplerSpec == SamplerInit /\ [][SamplerNext]_vars

RECURSIVE SeqSum(_)
SeqSum(v) == IF v = <<>> THEN 0 ELSE Head(v) + SeqSum(Tail(v))

(***************************************************************************)
(* C21: after observe(x_1), ..., observe(x_t) on a fresh Sampler the trial *)
(* count is t and, in exact arithmetic, mean * t = x_1 + ... + x_t; a      *)
(* Sampler with no observation reports mean 0.                             *)
(***************************************************************************)
SamplerMean ==
  /\ samplers[1].trial = Len(last.observed)
  /\ get_mean(samplers[1])[2] > 0
  /\ get_mean(samplers[1])[1] * Len(last.observed)
       = SeqSum(last.observed) * get_mean(samplers[1])[2]
  /\ last.observed = <<>> => get_mean(samplers[1])[1] = 0

\* Three observations whose mean is not an integer.
SamplerMeanWitness ==
  /\ last.op = "observe"
  /\ Len(last.observed) = 3
  /\ last.observed[1] # last.observed[2] /\ last.observed[2] # last.observed[3]
  /\ get_mean(samplers[1])[2] = 3
  /\ samplers[1].trial = 3

(***************************************************************************)
(* arms.rs and main.rs: the driver.  driver.pc is the position of main;    *)
(* the other fields are its locals.  The run of csar inside a trial is the *)
(* subject of CsarSpec; here a trial records the structure csar is given.  *)
(***************************************************************************)
MaxDriver == 2
MaxArmMean == 2

\* read_int(100_000, ...)
READ_INT_MAX == 100000

\* Arm::new(mean, std_dev)
Arm_new(mean, std_dev) == [mean |-> mean, std_dev |-> std_dev]

\* Arm::sample: a draw from Normal(mean, std_dev); with std_dev = 0 the draw
\* is the mean, otherwise it is any value around it.
Arm_sample(a) ==
  IF a.std_dev = 0 THEN {a.mean} ELSE {a.mean - 1, a.mean, a.mean + 1}

\* Arm::get_mean
Arm_get_mean(a) == {a.mean}

\* Arms::sample(i)
Arms_sample(as, i) == Arm_sample(At(as, i))

\* Arms::get_mean(i): the values a call may return.
Arms_get_mean(as, i) == Arm_sample(At(as, i))

\* What a line of standard input may hold: -1 stands for a line that does
\* not parse as usize.
DriverInputs == ((0 - 1)..(MaxDriver + 1)) \cup {READ_INT_MAX, READ_INT_MAX + 1}

DriverInit ==
  /\ kind = "driver" /\ arm_num = 0 /\ arms = <<>> /\ rank = 0
  /\ graph = Graph_new(0)
  /\ initial = [kind |-> "driver", arm_num |-> 0, arms |-> <<>>, rank |-> 0,
                graph |-> Graph_new(0)]
  /\ status = "ok"
  /\ last = NoCall
  /\ means = <<>> /\ samplers = <<>> /\ accepted_arms = <<>> /\ round = 0
  /\ union_find = UnionFind_new(0)
  /\ driver = [pc |-> "structure_type", structure_type |-> 0, arm_num |-> 0,
               trials |-> 0, structure |-> "none", trial |-> 0,
               arms |-> <<>>, means |-> <<>>, ran |-> "none", msg |-> "query"]

driver_rest == <<structure_vars, status, initial, last, csar_vars, union_find>>

\* One pass of the loop of read_int, for the prompt main stands at.  Arm
\* counts and trial counts are followed up to MaxDriver.
ReadInt(num) ==
  /\ driver.pc \in {"structure_type", "arm_num", "trials"}
  /\ LET maximum == IF driver.pc = "structure_type" THEN 2 ELSE READ_INT_MAX
     IN  IF num >= 0 /\ 0 < num /\ num <= maximum
         THEN /\ (driver.pc # "structure_type" => num <= MaxDriver)
              /\ driver' =
                   IF driver.pc = "structure_type"
                   THEN [driver EXCEPT !.structure_type = num, !.pc = "arm_num", !.msg = "info"]
                   ELSE IF driver.pc = "arm_num"
                   THEN [driver EXCEPT !.arm_num = num, !.pc = "trials", !.msg = "info"]
                   ELSE [driver EXCEPT !.trials = num, !.pc = "sample", !.msg = "info"]
         ELSE driver' = [driver EXCEPT !.msg = "invalid"]
  /\ UNCHANGED driver_rest

\* `let structure = if structure_type == 0 { Uniform } else { Circuit }`
SampleInstance ==
  /\ driver.pc = "sample"
  /\ driver' = [driver EXCEPT
                  !.structure = IF driver.structure_type = 0 THEN "uniform" ELSE "circuit",
                  !.pc = "add_arm", !.msg = "info"]
  /\ UNCHANGED driver_rest

\* arms.add_arm(rng.gen(), rng.gen())
AddArm(mean, std_dev) ==
  /\ driver.pc = "add_arm"
  /\ Len(driver.arms) < driver.arm_num
  /\ driver' = [driver EXCEPT
                  !.arms = Append(@, Arm_new(mean, std_dev)),
                  !.pc = IF Len(driver.arms) + 1 = driver.arm_num THEN "get_mean" ELSE "add_arm"]
  /\ UNCHANGED driver_rest

\* One element of `(0..arm_num).map(|i| arms.get_mean(i)).collect()`
GetMean ==
  /\ driver.pc = "get_mean"
  /\ \E x \in Arms_get_mean(driver.arms, Len(driver.means)) :
       driver' = [driver EXCEPT
                    !.means = Append(@, x),
                    !.pc = IF Len(driver.means) + 1 = driver.arm_num THEN "csar" ELSE "get_mean"]
  /\ UNCHANGED driver_rest

\* The rest of a trial: csar(s.clone(), &mut arms) on the sampled structure,
\* the comparison with s.optimal(&means), and the next trial or the summary.
RunTrial ==
  /\ driver.pc = "csar"
  /\ driver' = IF driver.trial + 1 < driver.trials
               THEN [driver EXCEPT !.ran = driver.structure, !.trial = @ + 1,
                                   !.arms = <<>>, !.means = <<>>, !.pc = "add_arm",
                                   !.msg = "result"]
               ELSE [driver EXCEPT !.ran = driver.structure, !.trial = @ + 1,
                                   !.pc = "summary", !.msg = "summary"]
  /\ UNCHANGED driver_rest

DriverNext ==
  \/ \E num \in DriverInputs : ReadInt(num)
  \/ SampleInstance
  \/ \E mean \in 0..MaxArmMean : \E std_dev \in 0..1 : AddArm(mean, std_dev)
  \/ GetMean
  \/ RunTrial

DriverSpec == DriverInit /\ [][DriverNext]_vars

(***************************************************************************)
(* C22: answering 1 at the structure-kind prompt runs the experiment on a  *)
(* Uniform matroid instance, answering 2 on a Graphic (circuit) matroid    *)
(* instance.                                                               *)
(***************************************************************************)
DriverStructureKind ==
  driver.ran # "none" =>
    /\ driver.structure_type = 1 => driver.ran = "uniform"
    /\ driver.structure_type = 2 => driver.ran = "circuit"

(***************************************************************************)
(* C26: the per-arm means the driver uses as ground truth are the arms'    *)
(* true means: Arms::get_mean(i) returns the mean passed to add_arm for    *)
(* arm i, the same value on every call.                                    *)
(***************************************************************************)
DriverGroundTruth ==
  \A k \in 1..Len(driver.means) : driver.means[k] = driver.arms[k].mean

(***************************************************************************)
(* C23: for CircuitMatroid, after any contract_arm and delete_arm on       *)
(* surviving ids, arms and the graph's edges have the same length and, at  *)
(* every position k, the edge is the image of the original edge of arm     *)
(* arms[k] under a renaming of the vertices: every original vertex bears   *)
(* one name, whichever surviving arm it is read from.                      *)
(***************************************************************************)
\* The pairs <<original vertex, its name now>> read off the surviving arms.
VertexNames ==
  UNION {{<<At(initial.graph.edges, arms[k])[1], graph.edges[k][1]>>,
          <<At(initial.graph.edges, arms[k])[2], graph.edges[k][2]>>} : k \in 1..Len(arms)}

ArmsMatchEdges ==
  kind = "circuit" =>
    /\ Len(arms) = Len(graph.edges)
    /\ \A p, q \in VertexNames : p[1] = q[1] => p[2] = q[2]

\* A contraction and a deletion in, the arms reordered and a vertex renamed.
ArmsMatchEdgesWitness ==
  /\ kind = "circuit" /\ status = "ok"
  /\ last.op = "delete_arm"
  /\ Len(arms) = arm_num - 2 /\ Len(arms) >= 2
  /\ graph.vnum = initial.graph.vnum - 1
  /\ \E k \in 1..(Len(arms) - 1) : arms[k] > arms[k + 1]
  /\ \E p \in VertexNames : p[1] # p[2]

(***************************************************************************)
(* C24: after any sequence of unite, find_root and same on elements of     *)
(* [0, n), the parents form a forest (the only cycles are roots pointing   *)
(* to themselves), so find_root terminates, and same(u, v) is true exactly *)
(* when the unite calls made so far connect u and v.                       *)
(***************************************************************************)
ParentsFormForest ==
  /\ status = "ok"
  /\ \A v \in UfNodes : Root(union_find, v) # -1
  /\ last.op = "same" =>
       (last.result <=> \E c \in last.classes : last.u \in c /\ last.v \in c)

(***************************************************************************)
(* A Graph driven on its own: Graph::new(vnum), then add_edge,             *)
(* contract_by_edge and delete_edge on valid positions.                    *)
(***************************************************************************)
MaxGraphVnum == 3
MaxGraphEdges == 3

GraphInit ==
  /\ kind = "graph" /\ arm_num = 0 /\ arms = <<>> /\ rank = 0
  /\ \E vnum \in 0..MaxGraphVnum : graph = Graph_new(vnum)
  /\ initial = [kind |-> "graph", arm_num |-> 0, arms |-> <<>>, rank |-> 0,
                graph |-> Graph_new(0)]
  /\ status = "ok"
  /\ last = NoCall
  /\ means = <<>> /\ samplers = <<>> /\ accepted_arms = <<>> /\ round = 0
  /\ union_find = UnionFind_new(0)
  /\ driver = [pc |-> "none"]

graph_rest == <<kind, arm_num, arms, rank, initial, csar_vars, union_find, driver>>

\* graph.add_edge(u, v)
GraphAddEdge(u, v) ==
  /\ status = "ok"
  /\ Len(graph.edges) < MaxGraphEdges
  /\ graph' = add_edge(graph, u, v)
  /\ last' = [op |-> "add_edge", u |-> u, v |-> v]
  /\ UNCHANGED <<status, graph_rest>>

\* graph.contract_by_edge(i); `self.vnum -= 1` on vnum = 0 aborts in a build
\* with overflow checks and wraps in a build without; a wrapped vnum is not
\* followed through further contractions.
GraphContractByEdge(i) ==
  /\ status = "ok"
  /\ i < Len(graph.edges)
  /\ graph.vnum <= MaxGraphVnum
  /\ \E checks \in BOOLEAN : \E n \in {DecUsize(graph.vnum, checks)} :
       IF n.tag = "Panic"
       THEN /\ status' = "panic"
            /\ UNCHANGED graph
       ELSE /\ status' = "ok"
            /\ graph' = [contract_by_edge(graph, i) EXCEPT !.vnum = n.val]
  /\ last' = [op |-> "contract_by_edge", i |-> i]
  /\ UNCHANGED graph_rest

\* graph.delete_edge(i)
GraphDeleteEdge(i) ==
  /\ status = "ok"
  /\ i < Len(graph.edges)
  /\ graph' = delete_edge(graph, i)
  /\ last' = [op |-> "delete_edge", i |-> i]
  /\ UNCHANGED <<status, graph_rest>>

GraphNext ==
  \/ \E u, v \in 0..(MaxGraphVnum - 1) : GraphAddEdge(u, v)
  \/ \E i \in 0..(MaxGraphEdges - 1) : GraphContractByEdge(i)
  \/ \E i \in 0..(MaxGraphEdges - 1) : GraphDeleteEdge(i)

GraphSpec == GraphInit /\ [][GraphNext]_vars

(***************************************************************************)
(* C25: after any sequence of add_edge, contract_by_edge and delete_edge   *)
(* on valid positions, the contraction of a self-loop included, every      *)
(* endpoint of every remaining edge lies in [0, vnum), so that             *)
(* maximum_spanning_tree never indexes its union-find out of range.        *)
(***************************************************************************)
EndpointsBelowVnum ==
  status = "ok" =>
    /\ EndpointsInRange(graph)
    /\ maximum_spanning_tree(graph, [k \in 1..Len(graph.edges) |-> 1]).tag # "Panic"

(***************************************************************************)
(* C27: during csar on UniformMatroid(n, r), r <= n, whatever the oracle   *)
(* returns: after every round the surviving arms are at least as many as   *)
(* the current rank, and the current rank plus the number of accepted arms *)
(* is r; contract_arm is never called at rank 0; the final output holds    *)
(* exactly r arms.                                                         *)
(***************************************************************************)
CsarUniformRank ==
  /\ [](kind = "uniform" =>
          /\ status = "ok"
          /\ Len(arms) >= rank
          /\ rank + Len(accepted_arms) = initial.rank
          /\ (round = arm_num => Len(accepted_arms) = initial.rank))
  /\ [][(kind = "uniform" /\ last'.op = "csar" /\ last'.accept)
          => (rank > 0 /\ rank' = rank - 1)]_vars

\* A whole run on UniformMatroid(4, 2): two arms accepted, two rejected, the
\* last round accepting.
CsarUniformRankWitness ==
  /\ kind = "uniform" /\ status = "ok"
  /\ arm_num = 4 /\ initial.rank = 2
  /\ round = arm_num /\ arms = <<>> /\ rank = 0
  /\ Len(accepted_arms) = 2
  /\ last.op = "csar" /\ last.accept

(***************************************************************************)
(* C28: during csar on a CircuitMatroid over a connected graph with V      *)
(* vertices, whatever the oracle returns: after every round the graph is   *)
(* still connected and vnum = V minus the number of accepted arms; no      *)
(* round contracts a self-loop; optimal never returns None; the final      *)
(* output holds exactly V - 1 arms.                                        *)
(***************************************************************************)
CsarCircuitConnected ==
  /\ [](kind = "circuit" =>
          /\ status = "ok"
          /\ Connected(graph)
          /\ graph.vnum = initial.graph.vnum - Len(accepted_arms)
          /\ (round = arm_num => Len(accepted_arms) = initial.graph.vnum - 1))
  /\ [][(kind = "circuit" /\ last'.op = "csar")
          => /\ optimal(Self, last'.weights).tag = "Some"
             /\ last'.accept =>
                  At(graph.edges, position(arms, last'.arm))[1]
                    # At(graph.edges, position(arms, last'.arm))[2]]_vars

\* A whole run on a graph of 4 vertices and 4 edges: three arms accepted,
\* one rejected, the graph down to one vertex.
CsarCircuitConnectedWitness ==
  /\ kind = "circuit" /\ status = "ok"
  /\ initial.graph.vnum = 4 /\ arm_num = 4
  /\ round = arm_num /\ arms = <<>>
  /\ graph.vnum = 1
  /\ Len(accepted_arms) = 3

====
